---- MODULE Spec2Model ----
(***************************************************************************)
(* LeafDB (src/src/model.ts): an in-memory document index (`list`, the     *)
(* insertion-ordered Set of identifiers, and `map`, identifier ->          *)
(* document) with soft deletion and an optional newline-delimited backing  *)
(* file.  Every public method of the class is one action; the promise      *)
(* executors run synchronously, so one call is one atomic step.            *)
(***************************************************************************)
EXTENDS Integers, Sequences, FiniteSets, TLC

VARIABLES strict, file, disk, map, list, last, pending

vars == <<strict, file, disk, map, list, last, pending>>

(***************************************************************************)
(* Bounds of the model.                                                    *)
(***************************************************************************)
MaxBatch == 2
MaxIds == 2
MaxLines == 1
MaxFileLines == 2
MaxNum == 1

(***************************************************************************)
(* JavaScript values, as tagged records.                                   *)
(***************************************************************************)
Num(k) == [t |-> "num", n |-> k]
Str(x) == [t |-> "str", s |-> x]
Bool(x) == [t |-> "bool", b |-> x]
Arr(s) == [t |-> "arr", xs |-> s]
Obj(f) == [t |-> "obj", o |-> f]
\* the number NaN (typeof 'number', no JSON text of its own)
NaN == [t |-> "nan"]
BigInt == [t |-> "bigint"]
Undefined == [t |-> "undefined"]
Null == [t |-> "null"]

EmptyObj == [k \in {} |-> Null]

Keys(o) == DOMAIN o

Has(o, k) == k \in DOMAIN o

\* { ...o, k: v }
With(o, k, v) == [x \in DOMAIN o \cup {k} |-> IF x = k THEN v ELSE o[x]]

\* { k: v }
Only(k, v) == [x \in {k} |-> v]

\* delete o[k]
Without(o, k) == [x \in DOMAIN o \ {k} |-> o[x]]

\* the identifiers a caller or the generator can come up with
IdNames == <<"a", "b", "c", "d">>
Ids == {IdNames[i] : i \in 1..MaxIds}

\* the field names of the model: `$k` and `$deleted` start with `$`, `x.y`
\* contains a dot
DollarKeys == {"$deleted", "$k", "$set", "$add", "$push"}
DotKeys == {"x.y"}


(***************************************************************************)
(* The helpers model.ts imports from ./utils, ./validation and             *)
(* ./modifiers.                                                            *)
(***************************************************************************)

\* isId: a non-empty string
isId(x) == x.t = "str" /\ x.s # ""

\* isObject: a plain object (not an array, not null, not a scalar)
isObject(x) == x.t = "obj"

\* toArray: an array is kept, anything else is wrapped in one
toArray(x) == IF x.t = "arr" THEN x.xs ELSE <<x>>

\* a field name is legal when it neither starts with `$` nor contains `.`
IsLegalKey(k) == k \notin DollarKeys /\ k \notin DotKeys

\* isValidDoc(doc, strict): an object whose field names are all legal, none
\* of whose values is undefined, and whose _id, when present, is an
\* identifier; with the second argument set the _id has to be present
isValidDoc(doc, needId) ==
    /\ isObject(doc)
    /\ \A k \in Keys(doc.o) : IsLegalKey(k) /\ doc.o[k] # Undefined
    /\ Has(doc.o, "_id") => isId(doc.o["_id"])
    /\ needId => Has(doc.o, "_id")

\* the identifier sequence is a JavaScript Set: Set.prototype.has
SetHas(s, x) == \E i \in 1..Len(s) : s[i] = x

\* Set.prototype.add keeps the position of an element that is already there
SetAdd(s, x) == IF SetHas(s, x) THEN s ELSE Append(s, x)

\* Set.prototype.delete
SetDelete(s, x) == SelectSeq(s, LAMBDA y : y # x)

NoErr == "none"

(***************************************************************************)
(* insert (model.ts 144-175).  `st` is the loop's state: the index, the    *)
(* documents inserted so far, the error thrown (if any) and the index as   *)
(* it was when the throwing document was reached.                          *)
(***************************************************************************)
InsertStart(l, m) ==
    [list |-> l, map |-> m, inserted |-> <<>>, err |-> NoErr, at |-> 0,
     seen |-> m]

\* the mutant of InsertDoc that stores the document before it looks for its
\* _id in the index
InsertDocStoreFirst(st, newDoc, uid, i) ==
    IF ~isValidDoc(newDoc, FALSE)
    THEN [st EXCEPT !.err = "invalid", !.at = i, !.seen = st.map]
    ELSE LET id == IF Has(newDoc.o, "_id") THEN newDoc.o["_id"].s ELSE uid
             doc == With(newDoc.o, "_id", Str(id))
         IN  IF Has(newDoc.o, "_id") /\ SetHas(st.list, id)
             THEN [st EXCEPT !.map = With(st.map, id, doc),
                             !.err = "exists", !.at = i, !.seen = st.map]
             ELSE [st EXCEPT !.list = SetAdd(st.list, id),
                             !.map = With(st.map, id, doc),
                             !.inserted = Append(st.inserted, doc)]

\* the mutant of InsertDoc that does not write the generated identifier
\* into the document (line 162)
InsertDocNoUid(st, newDoc, uid, i) ==
    IF ~isValidDoc(newDoc, FALSE)
    THEN [st EXCEPT !.err = "invalid", !.at = i, !.seen = st.map]
    ELSE LET id == IF Has(newDoc.o, "_id") THEN newDoc.o["_id"].s ELSE uid
             doc == newDoc.o
         IN  IF Has(newDoc.o, "_id") /\ SetHas(st.list, id)
             THEN [st EXCEPT !.err = "exists", !.at = i, !.seen = st.map]
             ELSE [st EXCEPT !.list = SetAdd(st.list, id),
                             !.map = With(st.map, id, doc),
                             !.inserted = Append(st.inserted,
                                                 With(doc, "_id", Str(id)))]

\* one pass of the loop body, lines 155-170; uid is what generateUid()
\* returns should the document carry no _id
InsertDoc(st, newDoc, uid, i) ==
    IF ~isValidDoc(newDoc, FALSE)
    THEN [st EXCEPT !.err = "invalid", !.at = i, !.seen = st.map]
    ELSE LET id == IF Has(newDoc.o, "_id") THEN newDoc.o["_id"].s ELSE uid
             doc == With(newDoc.o, "_id", Str(id))
         IN  IF Has(newDoc.o, "_id") /\ SetHas(st.list, id)
             THEN [st EXCEPT !.err = "exists", !.at = i, !.seen = st.map]
             ELSE [st EXCEPT !.list = SetAdd(st.list, id),
                             !.map = With(st.map, id, doc),
                             !.inserted = Append(st.inserted, doc)]

RECURSIVE InsertLoop(_, _, _, _)
\* the for loop, lines 154-171: it stops at the first throw
InsertLoop(st, newDocs, uids, i) ==
    IF i > Len(newDocs) \/ st.err # NoErr
    THEN st
    ELSE InsertLoop(InsertDoc(st, newDocs[i], uids[i], i), newDocs, uids, i + 1)

\* the promise executor of insert
InsertCall(l, m, payload, uids) ==
    IF payload.t # "arr" /\ ~isObject(payload)
    THEN [InsertStart(l, m) EXCEPT !.err = "payload"]
    ELSE InsertLoop(InsertStart(l, m), toArray(payload), uids, 1)

(***************************************************************************)
(* The backing file.  A string is a sequence of characters; a character    *)
(* is the newline or a run of characters without a newline: the text of    *)
(* a JSON value, or text that is no JSON.                                  *)
(***************************************************************************)
NL == [kind |-> "nl"]
Garbage == [kind |-> "garbage"]
Json(v) == [kind |-> "json", val |-> v]

NoFile == [exists |-> FALSE, text |-> <<>>]
FileOf(text) == [exists |-> TRUE, text |-> text]

RECURSIVE Join(_)
\* Array.prototype.join('\n')
Join(lines) ==
    IF lines = <<>> THEN <<>>
    ELSE IF Len(lines) = 1 THEN lines[1]
    ELSE lines[1] \o <<NL>> \o Join(Tail(lines))

RECURSIVE SplitFrom(_, _, _)
SplitFrom(text, i, cur) ==
    IF i > Len(text) THEN <<cur>>
    ELSE IF text[i] = NL THEN <<cur>> \o SplitFrom(text, i + 1, <<>>)
    ELSE SplitFrom(text, i + 1, Append(cur, text[i]))

\* String.prototype.split('\n'): the empty string splits into one empty line
Split(text) == SplitFrom(text, 1, <<>>)

\* JSON.stringify throws a TypeError on a BigInt, at any depth
CanStringify(v) ==
    CASE v.t = "bigint" -> FALSE
      [] v.t = "arr" -> \A i \in 1..Len(v.xs) : v.xs[i].t # "bigint"
      [] v.t = "obj" -> \A k \in Keys(v.o) : v.o[k].t # "bigint"
      [] OTHER -> TRUE

\* the value JSON.stringify writes for a value: null for NaN, also inside
\* an array
ToJson(v) ==
    CASE v = NaN -> Null
      [] v.t = "arr" ->
           Arr([i \in 1..Len(v.xs) |-> IF v.xs[i] = NaN THEN Null ELSE v.xs[i]])
      [] OTHER -> v

\* JSON.stringify of a document: its text, without the fields whose value
\* is undefined
Stringify(doc) ==
    <<Json(Obj([k \in {x \in Keys(doc) : doc[x] # Undefined} |-> ToJson(doc[k])]))>>

\* JSON.parse throws a SyntaxError on anything but the text of one value
CanParse(rawDoc) == Len(rawDoc) = 1 /\ rawDoc[1].kind = "json"

Parse(rawDoc) == rawDoc[1].val

\* doc.$deleted
IsDeleted(doc) == Has(doc, "$deleted") /\ doc["$deleted"] = Bool(TRUE)

(***************************************************************************)
(* load (model.ts 81-116)                                                  *)
(***************************************************************************)
\* the mutant of LoadLine that reports nothing for a line that fails
LoadLineSilent(st, rawDoc, isStrict) ==
    IF rawDoc = <<>> THEN st
    ELSE IF CanParse(rawDoc) /\ isValidDoc(Parse(rawDoc), TRUE)
    THEN LET doc == Parse(rawDoc).o
         IN  [st EXCEPT !.list = SetAdd(st.list, doc["_id"].s),
                        !.map = With(st.map, doc["_id"].s, doc)]
    ELSE st

\* the mutant of LoadLine that moves an identifier it reads again to the
\* end of the sequence
LoadLineMovesLast(st, rawDoc, isStrict) ==
    IF rawDoc = <<>> THEN st
    ELSE IF CanParse(rawDoc) /\ isValidDoc(Parse(rawDoc), TRUE)
    THEN LET doc == Parse(rawDoc).o
         IN  [st EXCEPT !.list = Append(SetDelete(st.list, doc["_id"].s),
                                        doc["_id"].s),
                        !.map = With(st.map, doc["_id"].s, doc)]
    ELSE IF isStrict THEN [st EXCEPT !.err = "corrupt"]
    ELSE [st EXCEPT !.corrupted = Append(st.corrupted, rawDoc)]

\* one pass of the loop body, lines 94-109
LoadLine(st, rawDoc, isStrict) ==
    IF rawDoc = <<>> THEN st
    ELSE IF CanParse(rawDoc) /\ isValidDoc(Parse(rawDoc), TRUE)
    THEN LET doc == Parse(rawDoc).o
         IN  [st EXCEPT !.list = SetAdd(st.list, doc["_id"].s),
                        !.map = With(st.map, doc["_id"].s, doc)]
    ELSE IF isStrict THEN [st EXCEPT !.err = "corrupt"]
    ELSE [st EXCEPT !.corrupted = Append(st.corrupted, rawDoc)]

RECURSIVE LoadLoopReadsOn(_, _, _, _)
\* the mutant of LoadLoop that keeps reading lines after one has thrown
LoadLoopReadsOn(st, rawDocs, isStrict, i) ==
    IF i > Len(rawDocs)
    THEN st
    ELSE LoadLoopReadsOn(LoadLine(st, rawDocs[i], isStrict), rawDocs, isStrict, i + 1)

RECURSIVE LoadLoop(_, _, _, _)
\* the for loop, lines 93-110
LoadLoop(st, rawDocs, isStrict, i) ==
    IF i > Len(rawDocs) \/ st.err # NoErr
    THEN st
    ELSE LoadLoop(LoadLine(st, rawDocs[i], isStrict), rawDocs, isStrict, i + 1)

\* the mutant of LoadCall that flushes the index before it looks for the
\* file
LoadCallFlushFirst(l, m, hasFile, d, isStrict) ==
    IF ~hasFile
    THEN [list |-> l, map |-> m, corrupted |-> <<>>, err |-> "memory",
          disk |-> d]
    ELSE IF d.exists
    THEN LET st == LoadLoop([list |-> <<>>, map |-> EmptyObj,
                             corrupted |-> <<>>, err |-> NoErr],
                            Split(d.text), isStrict, 1)
         IN  [list |-> st.list, map |-> st.map, corrupted |-> st.corrupted,
              err |-> st.err, disk |-> d]
    ELSE [list |-> <<>>, map |-> EmptyObj, corrupted |-> <<>>, err |-> NoErr,
          disk |-> FileOf(<<>>)]

\* the mutant of LoadCall that does not flush the index before it reads
\* the file
LoadCallNoFlush(l, m, hasFile, d, isStrict) ==
    IF ~hasFile
    THEN [list |-> l, map |-> m, corrupted |-> <<>>, err |-> "memory",
          disk |-> d]
    ELSE IF d.exists
    THEN LET st == LoadLoop([list |-> l, map |-> m,
                             corrupted |-> <<>>, err |-> NoErr],
                            Split(d.text), isStrict, 1)
         IN  [list |-> st.list, map |-> st.map, corrupted |-> st.corrupted,
              err |-> st.err, disk |-> d]
    ELSE [list |-> l, map |-> m, corrupted |-> <<>>, err |-> NoErr,
          disk |-> FileOf(<<>>)]

\* the mutant of LoadCall that writes the file back empty once it has read
\* it
LoadCallRewrites(l, m, hasFile, d, isStrict) ==
    IF ~hasFile
    THEN [list |-> l, map |-> m, corrupted |-> <<>>, err |-> "memory",
          disk |-> d]
    ELSE IF d.exists
    THEN LET st == LoadLoop([list |-> <<>>, map |-> EmptyObj,
                             corrupted |-> <<>>, err |-> NoErr],
                            Split(d.text), isStrict, 1)
         IN  [list |-> st.list, map |-> st.map, corrupted |-> st.corrupted,
              err |-> st.err, disk |-> FileOf(<<>>)]
    ELSE [list |-> l, map |-> m, corrupted |-> <<>>, err |-> NoErr,
          disk |-> FileOf(<<>>)]

\* the mutant of LoadCall without the memory-mode guard of line 84
LoadCallNoGuard(l, m, hasFile, d, isStrict) ==
    IF d.exists
    THEN LET st == LoadLoop([list |-> <<>>, map |-> EmptyObj,
                             corrupted |-> <<>>, err |-> NoErr],
                            Split(d.text), isStrict, 1)
         IN  [list |-> st.list, map |-> st.map, corrupted |-> st.corrupted,
              err |-> st.err, disk |-> d]
    ELSE [list |-> l, map |-> m, corrupted |-> <<>>, err |-> NoErr,
          disk |-> FileOf(<<>>)]

\* load(): the index, the corrupted lines, the error thrown and the file
\* afterwards
LoadCall(l, m, hasFile, d, isStrict) ==
    IF ~hasFile
    THEN [list |-> l, map |-> m, corrupted |-> <<>>, err |-> "memory",
          disk |-> d]
    ELSE IF d.exists
    THEN LET st == LoadLoop([list |-> <<>>, map |-> EmptyObj,
                             corrupted |-> <<>>, err |-> NoErr],
                            Split(d.text), isStrict, 1)
         IN  [list |-> st.list, map |-> st.map, corrupted |-> st.corrupted,
              err |-> st.err, disk |-> d]
    ELSE [list |-> l, map |-> m, corrupted |-> <<>>, err |-> NoErr,
          disk |-> FileOf(<<>>)]

(***************************************************************************)
(* persist (model.ts 119-138)                                              *)
(***************************************************************************)
\* the mutant of PersistDoc that deletes a failing document from the list
\* only
PersistDocListOnly(st, id, isStrict) ==
    LET doc == st.map[id]
    IN  IF IsDeleted(doc) THEN st
        ELSE IF CanStringify(Obj(doc))
        THEN [st EXCEPT !.payload = Append(st.payload, Stringify(doc))]
        ELSE [st EXCEPT !.list = SetDelete(st.list, id),
                        !.err = IF isStrict THEN "serialize" ELSE NoErr]

\* one call of the forEach callback, lines 124-135
PersistDoc(st, id, isStrict) ==
    LET doc == st.map[id]
    IN  IF IsDeleted(doc) THEN st
        ELSE IF CanStringify(Obj(doc))
        THEN [st EXCEPT !.payload = Append(st.payload, Stringify(doc))]
        ELSE [st EXCEPT !.list = SetDelete(st.list, id),
                        !.map = Without(st.map, id),
                        !.err = IF isStrict THEN "serialize" ELSE NoErr]

RECURSIVE PersistLoopGoesOn(_, _, _, _)
\* the mutant of PersistLoop that visits the remaining identifiers after a
\* document has thrown
PersistLoopGoesOn(st, ids, isStrict, i) ==
    IF i > Len(ids)
    THEN st
    ELSE PersistLoopGoesOn(PersistDoc(st, ids[i], isStrict), ids, isStrict, i + 1)

RECURSIVE PersistLoop(_, _, _, _)
\* this.list.forEach, over the identifiers in their order
PersistLoop(st, ids, isStrict, i) ==
    IF i > Len(ids) \/ st.err # NoErr
    THEN st
    ELSE PersistLoop(PersistDoc(st, ids[i], isStrict), ids, isStrict, i + 1)

\* the mutant of PersistCall that appends to the file instead of
\* overwriting it
PersistCallAppend(l, m, hasFile, d, isStrict) ==
    IF ~hasFile
    THEN [list |-> l, map |-> m, err |-> "memory", disk |-> d]
    ELSE LET st == PersistLoop([list |-> l, map |-> m, payload |-> <<>>,
                                err |-> NoErr], l, isStrict, 1)
         IN  [list |-> st.list, map |-> st.map, err |-> st.err,
              disk |-> IF st.err = NoErr
                       THEN FileOf(d.text \o Join(st.payload))
                       ELSE d]

\* persist(): the index, the error thrown and the file afterwards
PersistCall(l, m, hasFile, d, isStrict) ==
    IF ~hasFile
    THEN [list |-> l, map |-> m, err |-> "memory", disk |-> d]
    ELSE LET st == PersistLoop([list |-> l, map |-> m, payload |-> <<>>,
                                err |-> NoErr], l, isStrict, 1)
         IN  [list |-> st.list, map |-> st.map, err |-> st.err,
              disk |-> IF st.err = NoErr THEN FileOf(Join(st.payload)) ELSE d]

\* the mutant of DropCall that forgets to persist
DropCallNoPersist(l, m, hasFile, d, isStrict) ==
    [list |-> <<>>, map |-> EmptyObj, err |-> NoErr, disk |-> d]

\* drop (model.ts 362-365): flush(), then persist() when there is a file
DropCall(l, m, hasFile, d, isStrict) ==
    IF hasFile
    THEN PersistCall(<<>>, EmptyObj, hasFile, d, isStrict)
    ELSE [list |-> <<>>, map |-> EmptyObj, err |-> NoErr, disk |-> d]

(***************************************************************************)
(* Queries, projections and modifiers (./validation, ./modifiers).         *)
(***************************************************************************)
\* whether evaluating the query on the document throws: `$has` on a field
\* that exists and is no array
QueryThrows(doc, query) ==
    /\ Has(query.o, "$has")
    /\ \E f \in Keys(query.o["$has"].o) : Has(doc, f) /\ doc[f].t # "arr"

\* isQueryMatch: every key of the query has to hold; a plain key compares
\* the field with the literal, `$has` looks for the literal in an array
isQueryMatch(doc, query) ==
    \A k \in Keys(query.o) :
        IF k = "$has"
        THEN \A f \in Keys(query.o[k].o) :
                 /\ Has(doc, f)
                 /\ doc[f].t = "arr"
                 /\ \E i \in 1..Len(doc[f].xs) : doc[f].xs[i] = query.o[k].o[f]
        ELSE Has(doc, k) /\ doc[k] = query.o[k]

\* project: the document itself without a projection, else the listed
\* fields the document has
project(doc, projection) ==
    IF projection = Undefined THEN doc
    ELSE [k \in {x \in Keys(doc) :
                    \E i \in 1..Len(projection.xs) : projection.xs[i] = Str(x)}
          |-> doc[k]]

\* hasOperators: some top-level key starts with `$`
hasOperators(update) == \E k \in Keys(update.o) : k \in DollarKeys

Modifiers == {"$add", "$push", "$set"}

\* isValidUpdate: an object that is either all modifiers, each with an
\* object of legal field names, or a document without modifiers
isValidUpdate(update) ==
    /\ isObject(update)
    /\ IF hasOperators(update)
       THEN \A k \in Keys(update.o) :
                /\ k \in Modifiers
                /\ isObject(update.o[k])
                /\ \A f \in Keys(update.o[k].o) :
                       IsLegalKey(f) /\ update.o[k].o[f] # Undefined
       ELSE \A k \in Keys(update.o) :
                IsLegalKey(k) /\ update.o[k] # Undefined

\* whether modify throws: $add on a field that is no number, $push on a
\* field that is no array
ModifyThrows(doc, update) ==
    \/ /\ Has(update.o, "$add")
       /\ \E f \in Keys(update.o["$add"].o) : Has(doc, f) /\ doc[f].t \notin {"num", "nan"}
    \/ /\ Has(update.o, "$push")
       /\ \E f \in Keys(update.o["$push"].o) : Has(doc, f) /\ doc[f].t # "arr"

\* one modifier applied to one field
ModifyField(doc, op, f, v) ==
    CASE op = "$add" ->
           With(doc, f, IF Has(doc, f) /\ doc[f] = NaN THEN NaN
                        ELSE Num((IF Has(doc, f) THEN doc[f].n ELSE 0) + v.n))
      [] op = "$push" ->
           With(doc, f, Arr(Append(IF Has(doc, f) THEN doc[f].xs ELSE <<>>, v)))
      [] OTHER -> With(doc, f, v)

\* modify: a new document, the modifiers applied field by field ($add,
\* then $push, then $set; a field is named by at most one of them here)
modify(doc, update) ==
    [f \in Keys(doc) \cup UNION {Keys(update.o[k].o) : k \in Keys(update.o)} |->
        IF \E k \in Keys(update.o) : Has(update.o[k].o, f)
        THEN LET k == CHOOSE k \in Keys(update.o) : Has(update.o[k].o, f)
             IN  ModifyField(doc, k, f, update.o[k].o[f])[f]
        ELSE doc[f]]

(***************************************************************************)
(* findOne, findMany, find (model.ts 182-237)                              *)
(***************************************************************************)
\* the mutant of IsLive that takes a tombstoned document for a live one
IsLiveAny(m, id) == Has(m, id)

\* doc && !doc.$deleted
IsLive(m, id) == Has(m, id) /\ ~IsDeleted(m[id])

FindOneCall(m, id, projection) ==
    IF ~isId(id) THEN [res |-> Null, err |-> "id"]
    ELSE IF IsLive(m, id.s)
    THEN [res |-> Obj(project(m[id.s], projection)), err |-> NoErr]
    ELSE [res |-> Null, err |-> NoErr]

RECURSIVE FindManyLoop(_, _, _, _, _)
\* the for loop, lines 204-210
FindManyLoop(st, m, ids, projection, i) ==
    IF i > Len(ids) \/ st.err # NoErr THEN st
    ELSE IF ~isId(ids[i])
    THEN [st EXCEPT !.err = "id"]
    ELSE FindManyLoop(
             IF IsLive(m, ids[i].s)
             THEN [st EXCEPT !.payload =
                       Append(st.payload, project(m[ids[i].s], projection))]
             ELSE st,
             m, ids, projection, i + 1)

FindManyCall(m, ids, projection) ==
    IF ids.t # "arr" THEN [payload |-> <<>>, err |-> "ids"]
    ELSE FindManyLoop([payload |-> <<>>, err |-> NoErr], m, toArray(ids),
                      projection, 1)

RECURSIVE FindLoopReversed(_, _, _, _, _, _)
\* the mutant of FindLoop that puts each match in front of the payload
FindLoopReversed(st, l, m, query, projection, i) ==
    IF i > Len(l) \/ st.err # NoErr THEN st
    ELSE IF IsLive(m, l[i]) /\ QueryThrows(m[l[i]], query)
    THEN [st EXCEPT !.err = "query"]
    ELSE FindLoopReversed(
             IF IsLive(m, l[i]) /\ isQueryMatch(m[l[i]], query)
             THEN [st EXCEPT !.payload =
                       <<project(m[l[i]], projection)>> \o st.payload]
             ELSE st,
             l, m, query, projection, i + 1)

RECURSIVE FindLoop(_, _, _, _, _, _)
\* this.list.forEach, lines 227-233
FindLoop(st, l, m, query, projection, i) ==
    IF i > Len(l) \/ st.err # NoErr THEN st
    ELSE IF IsLive(m, l[i]) /\ QueryThrows(m[l[i]], query)
    THEN [st EXCEPT !.err = "query"]
    ELSE FindLoop(
             IF IsLive(m, l[i]) /\ isQueryMatch(m[l[i]], query)
             THEN [st EXCEPT !.payload =
                       Append(st.payload, project(m[l[i]], projection))]
             ELSE st,
             l, m, query, projection, i + 1)

FindCall(l, m, query, projection) ==
    IF ~isObject(query) THEN [payload |-> <<>>, err |-> "query"]
    ELSE FindLoop([payload |-> <<>>, err |-> NoErr], l, m, query, projection, 1)

(***************************************************************************)
(* updateById, update (model.ts 245-311)                                   *)
(***************************************************************************)
\* the mutant of UpdateDoc that stores the new document without putting
\* the identifier back
UpdateDocPayloadId(st, id, update, projection) ==
    IF hasOperators(update) /\ ModifyThrows(st.map[id], update)
    THEN [st EXCEPT !.err = "modify"]
    ELSE LET doc == IF hasOperators(update)
                    THEN modify(st.map[id], update)
                    ELSE update.o
         IN  [st EXCEPT !.map = With(st.map, id, doc),
                        !.payload = Append(st.payload, project(doc, projection))]

\* the mutant of UpdateDoc that merges a replacement over the old document
UpdateDocMerge(st, id, update, projection) ==
    IF hasOperators(update) /\ ModifyThrows(st.map[id], update)
    THEN [st EXCEPT !.err = "modify"]
    ELSE LET newDoc == IF hasOperators(update)
                       THEN modify(st.map[id], update)
                       ELSE [k \in Keys(st.map[id]) \cup Keys(update.o) |->
                                IF Has(update.o, k) THEN update.o[k]
                                ELSE st.map[id][k]]
             doc == With(newDoc, "_id", Str(id))
         IN  [st EXCEPT !.map = With(st.map, id, doc),
                        !.payload = Append(st.payload, project(doc, projection))]

\* lines 264-270 and 299-305: the new document takes the place of the old
\* one under the same identifier
UpdateDoc(st, id, update, projection) ==
    IF hasOperators(update) /\ ModifyThrows(st.map[id], update)
    THEN [st EXCEPT !.err = "modify"]
    ELSE LET newDoc == IF hasOperators(update)
                       THEN modify(st.map[id], update)
                       ELSE update.o
             doc == With(newDoc, "_id", Str(id))
         IN  [st EXCEPT !.map = With(st.map, id, doc),
                        !.payload = Append(st.payload, project(doc, projection))]

RECURSIVE UpdateByIdLoopAny(_, _, _, _, _)
\* the mutant of UpdateByIdLoop that also updates a tombstoned document
UpdateByIdLoopAny(st, ids, update, projection, i) ==
    IF i > Len(ids) \/ st.err # NoErr THEN st
    ELSE IF ~isId(ids[i])
    THEN [st EXCEPT !.err = "id"]
    ELSE UpdateByIdLoopAny(
             IF Has(st.map, ids[i].s)
             THEN UpdateDoc(st, ids[i].s, update, projection)
             ELSE st,
             ids, update, projection, i + 1)

RECURSIVE UpdateByIdLoop(_, _, _, _, _)
\* the for loop, lines 256-272
UpdateByIdLoop(st, ids, update, projection, i) ==
    IF i > Len(ids) \/ st.err # NoErr THEN st
    ELSE IF ~isId(ids[i])
    THEN [st EXCEPT !.err = "id"]
    ELSE UpdateByIdLoop(
             IF IsLive(st.map, ids[i].s)
             THEN UpdateDoc(st, ids[i].s, update, projection)
             ELSE st,
             ids, update, projection, i + 1)

UpdateByIdCall(m, query, update, projection) ==
    IF ~isValidUpdate(update) THEN [map |-> m, payload |-> <<>>, err |-> "update"]
    ELSE UpdateByIdLoop([map |-> m, payload |-> <<>>, err |-> NoErr],
                        toArray(query), update, projection, 1)

RECURSIVE UpdateLoop(_, _, _, _, _, _)
\* this.list.forEach, lines 295-307
UpdateLoop(st, l, query, update, projection, i) ==
    IF i > Len(l) \/ st.err # NoErr THEN st
    ELSE IF IsLive(st.map, l[i]) /\ QueryThrows(st.map[l[i]], query)
    THEN [st EXCEPT !.err = "query"]
    ELSE UpdateLoop(
             IF IsLive(st.map, l[i]) /\ isQueryMatch(st.map[l[i]], query)
             THEN UpdateDoc(st, l[i], update, projection)
             ELSE st,
             l, query, update, projection, i + 1)

\* the mutant of UpdateCall that looks at the validity of the update only
\* after the loop has run with the plain fields of the update
UpdateCallLateCheck(l, m, query, update, projection) ==
    IF ~isObject(query) THEN [map |-> m, payload |-> <<>>, err |-> "query"]
    ELSE IF ~isValidUpdate(update)
    THEN LET plain == Obj([k \in {x \in Keys(update.o) : x \notin DollarKeys}
                           |-> update.o[k]])
             st == UpdateLoop([map |-> m, payload |-> <<>>, err |-> NoErr], l,
                              query, plain, projection, 1)
         IN  [map |-> st.map, payload |-> <<>>, err |-> "update"]
    ELSE UpdateLoop([map |-> m, payload |-> <<>>, err |-> NoErr], l, query,
                    update, projection, 1)

UpdateCall(l, m, query, update, projection) ==
    IF ~isObject(query) THEN [map |-> m, payload |-> <<>>, err |-> "query"]
    ELSE IF ~isValidUpdate(update)
    THEN [map |-> m, payload |-> <<>>, err |-> "update"]
    ELSE UpdateLoop([map |-> m, payload |-> <<>>, err |-> NoErr], l, query,
                    update, projection, 1)

(***************************************************************************)
(* deleteById, delete (model.ts 317-359)                                   *)
(***************************************************************************)
\* the mutant of DeleteDoc that takes the document out of the mapping
DeleteDocRemove(st, id) ==
    [st EXCEPT !.map = Without(st.map, id),
               !.payload = st.payload + 1]

\* lines 330-331 and 352-353: { ...doc, $deleted: true }, payload += 1
DeleteDoc(st, id) ==
    [st EXCEPT !.map = With(st.map, id, With(st.map[id], "$deleted", Bool(TRUE))),
               !.payload = st.payload + 1]

RECURSIVE DeleteByIdLoop(_, _, _)
\* the for loop, lines 322-333
DeleteByIdLoop(st, ids, i) ==
    IF i > Len(ids) \/ st.err # NoErr THEN st
    ELSE IF ~isId(ids[i])
    THEN [st EXCEPT !.err = "id"]
    ELSE DeleteByIdLoop(
             IF IsLive(st.map, ids[i].s) THEN DeleteDoc(st, ids[i].s) ELSE st,
             ids, i + 1)

\* the mutant of DeleteByIdCall that validates the whole list before it
\* tombstones a document
DeleteByIdCallChecksFirst(m, query) ==
    IF \E i \in 1..Len(toArray(query)) : ~isId(toArray(query)[i])
    THEN [map |-> m, payload |-> 0, err |-> "id"]
    ELSE DeleteByIdLoop([map |-> m, payload |-> 0, err |-> NoErr],
                        toArray(query), 1)

DeleteByIdCall(m, query) ==
    DeleteByIdLoop([map |-> m, payload |-> 0, err |-> NoErr], toArray(query), 1)

RECURSIVE DeleteLoop(_, _, _, _)
\* this.list.forEach, lines 348-355
DeleteLoop(st, l, query, i) ==
    IF i > Len(l) \/ st.err # NoErr THEN st
    ELSE IF IsLive(st.map, l[i]) /\ QueryThrows(st.map[l[i]], query)
    THEN [st EXCEPT !.err = "query"]
    ELSE DeleteLoop(
             IF IsLive(st.map, l[i]) /\ isQueryMatch(st.map[l[i]], query)
             THEN DeleteDoc(st, l[i])
             ELSE st,
             l, query, i + 1)

DeleteCall(l, m, query) ==
    IF ~isObject(query) THEN [map |-> m, payload |-> 0, err |-> "query"]
    ELSE DeleteLoop([map |-> m, payload |-> 0, err |-> NoErr], l, query, 1)

(***************************************************************************)
(* The arguments the calls are made with.                                  *)
(***************************************************************************)
RECURSIVE SeqsUpTo(_, _)
\* the sequences over S of length at most n
SeqsUpTo(S, n) ==
    IF n = 0 THEN {<<>>}
    ELSE LET shorter == SeqsUpTo(S, n - 1)
         IN  shorter \cup {Append(q, x) : q \in shorter, x \in S}

\* documents handed to insert: without _id, with an _id, with a value that
\* does not serialize, and with an undefined value (invalid)
InsertDocs ==
    { Obj(EmptyObj),
      Obj([_id |-> Str("a"), v |-> Num(1)]),
      Obj([_id |-> Str("b"), v |-> BigInt]),
      Obj([v |-> Undefined]) }

\* insert takes one document, an array of documents, or anything else
Payloads ==
    {Null} \cup InsertDocs \cup {Arr(q) : q \in SeqsUpTo(InsertDocs, MaxBatch)}

\* generateUid() is called for the documents that pass validation and carry
\* no _id; it may return any identifier
NeedsUid(doc) == isValidDoc(doc, FALSE) /\ ~Has(doc.o, "_id")

UidChoices(newDocs) ==
    {u \in [1..Len(newDocs) -> Ids] :
        \A i \in 1..Len(newDocs) : NeedsUid(newDocs[i]) \/ u[i] = IdNames[1]}

\* an identifier argument: an identifier, or a number
IdArgs == {Str(i) : i \in Ids} \cup {Num(7)}

\* OneOrMore<string>
IdQueries == IdArgs \cup {Arr(q) : q \in SeqsUpTo(IdArgs, MaxBatch)}

Queries ==
    { Obj(EmptyObj),
      Obj([v |-> Num(1)]),
      Obj(Only("$has", Obj([v |-> Num(1)]))),
      Null }

\* updates: a replacement (carrying another document's _id), modifiers
\* (one of them assigning another document's _id), and a modifier mixed
\* with a plain field (invalid)
Updates ==
    { Obj([_id |-> Str("b")]),
      Obj(With(Only("$add", Obj([v |-> Num(1)])), "$set", Obj([_id |-> Str("b")]))),
      Obj(With(Only("$set", Obj([v |-> Num(1)])), "v", Num(1))) }

Projections == {Undefined, Arr(<<Str("v")>>)}

\* the lines a backing file is made of before the store opens it: empty,
\* no JSON, two documents with the same _id, a document without _id
FileLines ==
    { <<>>,
      <<Garbage>>,
      <<Json(Obj([_id |-> Str("a"), v |-> Num(1)]))>>,
      <<Json(Obj([_id |-> Str("a")]))>>,
      <<Json(Obj([v |-> Num(1)]))>> }

\* no file, or a file of one to n of these lines
InitialDisks(n) ==
    {NoFile} \cup {FileOf(Join(q)) : q \in SeqsUpTo(FileLines, n) \ {<<>>}}

\* $add is the one operation that makes new numbers: the calls are made
\* while the numbers stay within MaxNum
NumsWithin(m) ==
    \A id \in Keys(m) : \A k \in Keys(m[id]) :
        m[id][k].t = "num" => m[id][k].n <= MaxNum

(***************************************************************************)
(* The store after construction (model.ts 54-69) and its methods.          *)
(***************************************************************************)
\* no promise awaits its continuation; `reference` is the index of the
\* caller that awaits each call before it makes the next one
NoPending ==
    [queue |-> <<>>,
     reference |-> [list |-> <<>>, map |-> EmptyObj],
     got |-> [value |-> Null, expect |-> Null]]

\* the body of the constructor, lines 60-68: the index starts empty, and
\* with a root the file is loaded unless disableAutoload is set
ConstructCall(isStrict, root, disableAutoload, d) ==
    IF root /\ ~disableAutoload
    THEN LoadCall(<<>>, EmptyObj, TRUE, d, isStrict)
    ELSE [list |-> <<>>, map |-> EmptyObj, corrupted |-> <<>>,
          err |-> NoErr, disk |-> d]

\* new LeafDB(options): in memory mode no file is looked at; with a root
\* the file is loaded unless disableAutoload is set, and a load that throws
\* leaves no store behind
Construct(roots, disks) ==
    \E isStrict \in BOOLEAN, root \in roots, disableAutoload \in BOOLEAN,
       d \in disks :
        LET r == ConstructCall(isStrict, root, disableAutoload, d)
        IN  /\ root \/ d = NoFile
            /\ r.err = NoErr
            /\ strict = isStrict
            /\ file = root
            /\ disk = r.disk
            /\ list = r.list
            /\ map = r.map
            /\ last = [op |-> "new", err |-> NoErr]
            /\ pending = NoPending

Init == Construct(BOOLEAN, InitialDisks(MaxLines))

Load ==
    LET r == LoadCall(list, map, file, disk, strict)
    IN  /\ list' = r.list
        /\ map' = r.map
        /\ disk' = r.disk
        /\ last' = [op |-> "load", err |-> r.err]
        /\ UNCHANGED pending
        /\ UNCHANGED <<strict, file>>

Persist ==
    LET r == PersistCall(list, map, file, disk, strict)
    IN  /\ list' = r.list
        /\ map' = r.map
        /\ disk' = r.disk
        /\ last' = [op |-> "persist", err |-> r.err]
        /\ UNCHANGED pending
        /\ UNCHANGED <<strict, file>>

Drop ==
    LET r == DropCall(list, map, file, disk, strict)
    IN  /\ list' = r.list
        /\ map' = r.map
        /\ disk' = r.disk
        /\ last' = [op |-> "drop", err |-> r.err]
        /\ UNCHANGED pending
        /\ UNCHANGED <<strict, file>>

\* insert with a payload of the given set
InsertFrom(payloads) ==
    \E payload \in payloads :
        \E uids \in UidChoices(toArray(payload)) :
            LET r == InsertCall(list, map, payload, uids)
            IN  /\ list' = r.list
                /\ map' = r.map
                /\ last' = [op |-> "insert", err |-> r.err]
                /\ UNCHANGED pending
                /\ UNCHANGED <<strict, file, disk>>

Insert == InsertFrom(Payloads)

\* the mutant of FindOne that takes the document it returns out of the
\* index
FindOneTakes ==
    \E id \in IdArgs, projection \in Projections :
        LET r == FindOneCall(map, id, projection)
        IN  /\ last' = [op |-> "findOne", err |-> r.err]
            /\ map' = IF r.err = NoErr /\ r.res # Null
                      THEN Without(map, id.s) ELSE map
            /\ list' = IF r.err = NoErr /\ r.res # Null
                       THEN SetDelete(list, id.s) ELSE list
            /\ UNCHANGED pending
            /\ UNCHANGED <<strict, file, disk>>

FindOne ==
    \E id \in IdArgs, projection \in Projections :
        LET r == FindOneCall(map, id, projection)
        IN  /\ last' = [op |-> "findOne", err |-> r.err]
            /\ UNCHANGED pending
            /\ UNCHANGED <<strict, file, disk, list, map>>

FindMany ==
    \E ids \in IdQueries, projection \in Projections :
        LET r == FindManyCall(map, ids, projection)
        IN  /\ last' = [op |-> "findMany", err |-> r.err]
            /\ UNCHANGED pending
            /\ UNCHANGED <<strict, file, disk, list, map>>

Find ==
    \E query \in Queries, projection \in Projections :
        LET r == FindCall(list, map, query, projection)
        IN  /\ last' = [op |-> "find", err |-> r.err]
            /\ UNCHANGED pending
            /\ UNCHANGED <<strict, file, disk, list, map>>

\* updateById with an update of the given set
UpdateByIdFrom(updates) ==
    \E query \in IdQueries, update \in updates, projection \in Projections :
        LET r == UpdateByIdCall(map, query, update, projection)
        IN  /\ NumsWithin(r.map)
            /\ map' = r.map
            /\ last' = [op |-> "updateById", err |-> r.err]
            /\ UNCHANGED pending
            /\ UNCHANGED <<strict, file, disk, list>>

UpdateById == UpdateByIdFrom(Updates)

\* update with an update of the given set
UpdateFrom(updates) ==
    \E query \in Queries, update \in updates, projection \in Projections :
        LET r == UpdateCall(list, map, query, update, projection)
        IN  /\ NumsWithin(r.map)
            /\ map' = r.map
            /\ last' = [op |-> "update", err |-> r.err]
            /\ UNCHANGED pending
            /\ UNCHANGED <<strict, file, disk, list>>

Update == UpdateFrom(Updates)

DeleteById ==
    \E query \in IdQueries :
        LET r == DeleteByIdCall(map, query)
        IN  /\ map' = r.map
            /\ last' = [op |-> "deleteById", err |-> r.err]
            /\ UNCHANGED pending
            /\ UNCHANGED <<strict, file, disk, list>>

Delete ==
    \E query \in Queries :
        LET r == DeleteCall(list, map, query)
        IN  /\ map' = r.map
            /\ last' = [op |-> "delete", err |-> r.err]
            /\ UNCHANGED pending
            /\ UNCHANGED <<strict, file, disk, list>>

Next ==
    \/ Load
    \/ Persist
    \/ Drop
    \/ Insert
    \/ FindOne
    \/ FindMany
    \/ Find
    \/ UpdateById
    \/ Update
    \/ DeleteById
    \/ Delete

Spec == Init /\ [][Next]_vars

\* the documents and payloads of the smaller stores: those above and a
\* document with a number that has no JSON text
InsertDocsWide == InsertDocs \cup {Obj([_id |-> Str("b"), v |-> NaN])}

PayloadsWide ==
    {Null} \cup InsertDocsWide
           \cup {Arr(q) : q \in SeqsUpTo(InsertDocsWide, MaxBatch)}

InsertWide == InsertFrom(PayloadsWide)

\* the documents and payloads of the store with a backing file: those of
\* the smaller stores and a second document that does not serialize, this
\* one without _id
InsertDocsFile == InsertDocsWide \cup {Obj([v |-> BigInt])}

PayloadsFile ==
    {Null} \cup InsertDocsFile
           \cup {Arr(q) : q \in SeqsUpTo(InsertDocsFile, MaxBatch)}

InsertFile == InsertFrom(PayloadsFile)

\* the store with a backing file of up to MaxFileLines lines, under the
\* operations that read the file, write it, or fill and empty the index
InitFile == Construct({TRUE}, InitialDisks(MaxFileLines))

NextFile ==
    \/ Load
    \/ Persist
    \/ Drop
    \/ InsertFile
    \/ Delete

SpecFile == InitFile /\ [][NextFile]_vars

\* the updates of the memory-only store: those above and a replacement
\* that brings a field of its own and no _id
UpdatesWide == Updates \cup {Obj([w |-> Num(1)])}

UpdateByIdWide == UpdateByIdFrom(UpdatesWide)

UpdateWide == UpdateFrom(UpdatesWide)

\* the memory-only store under insert, findOne, the updates and the deletes
InitMemory == Construct({FALSE}, {NoFile})

NextMemory ==
    \/ InsertWide
    \/ FindOne
    \/ UpdateByIdWide
    \/ UpdateWide
    \/ DeleteById
    \/ Delete

SpecMemory == InitMemory /\ [][NextMemory]_vars

\* the files of the store that only loads: up to MaxLoadLines lines, with
\* two identifiers, one of them on two different lines, and a line that is
\* no JSON
MaxLoadLines == 3

LoadFileLines ==
    { <<Garbage>>,
      <<Json(Obj([_id |-> Str("a"), v |-> Num(1)]))>>,
      <<Json(Obj([_id |-> Str("a")]))>>,
      <<Json(Obj([_id |-> Str("b")]))>> }

LoadDisks ==
    {FileOf(Join(q)) : q \in SeqsUpTo(LoadFileLines, MaxLoadLines) \ {<<>>}}

\* the store opened on such a file, under load and delete
InitLoad == Construct({TRUE}, LoadDisks)

NextLoad ==
    \/ Load
    \/ Delete

SpecLoad == InitLoad /\ [][NextLoad]_vars

\* the store, with or without a backing file, under the calls that read
\* the index and those that fill it and tombstone its documents
InitRead == Construct(BOOLEAN, InitialDisks(MaxLines))

NextRead ==
    \/ Insert
    \/ DeleteById
    \/ FindOne
    \/ FindMany
    \/ Find

SpecRead == InitRead /\ [][NextRead]_vars

(***************************************************************************)
(* Calls whose promise is not awaited before the next call is made.  A     *)
(* method call evaluates `new Promise(executor)`; the continuation the     *)
(* caller attached to the promise runs later, in any order.                *)
(***************************************************************************)
MaxPending == 2

\* the calls made without awaiting: insert of one document, delete, find
AsyncCalls ==
    {[op |-> "insert", arg |-> doc, uids |-> uids] :
         doc \in InsertDocs, uids \in {<<IdNames[i]>> : i \in 1..MaxIds}}
    \cup {[op |-> "delete", arg |-> query, uids |-> <<>>] : query \in Queries}
    \cup {[op |-> "find", arg |-> Obj(EmptyObj), uids |-> <<>>]}

\* the executor of a call, run on an index: the index it leaves and the
\* value it settles the promise with
Exec(l, m, call) ==
    CASE call.op = "insert" ->
           LET r == InsertCall(l, m, call.arg, call.uids)
           IN  [list |-> r.list, map |-> r.map,
                value |-> [err |-> r.err,
                           res |-> Arr([i \in 1..Len(r.inserted) |-> Obj(r.inserted[i])])]]
      [] call.op = "delete" ->
           LET r == DeleteCall(l, m, call.arg)
           IN  [list |-> l, map |-> r.map,
                value |-> [err |-> r.err, res |-> Num(r.payload)]]
      [] OTHER ->
           LET r == FindCall(l, m, call.arg, Undefined)
           IN  [list |-> l, map |-> m,
                value |-> [err |-> r.err,
                           res |-> Arr([i \in 1..Len(r.payload) |-> Obj(r.payload[i])])]]

\* the mutant of NewPromise in which the executor is not run by the
\* constructor but together with the continuation
NewPromiseDeferred(l, m, call) ==
    [list |-> l, map |-> m,
     promise |-> [state |-> "pending", call |-> call, value |-> Null]]

\* `return new Promise(resolve => { ... })`: the constructor runs the
\* executor before it returns, so the promise a method returns is settled
NewPromise(l, m, call) ==
    LET r == Exec(l, m, call)
    IN  [list |-> r.list, map |-> r.map,
         promise |-> [state |-> "settled", call |-> call, value |-> r.value]]

\* a method is called and its promise is kept for later
Call ==
    \E call \in AsyncCalls :
        LET p == NewPromise(list, map, call)
            ref == Exec(pending.reference.list, pending.reference.map, call)
        IN  /\ Len(pending.queue) < MaxPending
            /\ list' = p.list
            /\ map' = p.map
            /\ pending' = [pending EXCEPT
                   !.queue = Append(@, [promise |-> p.promise,
                                        expect |-> ref.value]),
                   !.reference = [list |-> ref.list, map |-> ref.map]]
            /\ last' = [op |-> "call", err |-> NoErr]
            /\ UNCHANGED <<strict, file, disk>>

\* the continuation of one of the promises runs and gets its value
Continue ==
    \E k \in 1..Len(pending.queue) :
        LET item == pending.queue[k]
            run == IF item.promise.state = "settled"
                   THEN [list |-> list, map |-> map, value |-> item.promise.value]
                   ELSE Exec(list, map, item.promise.call)
        IN  /\ list' = run.list
            /\ map' = run.map
            /\ pending' = [pending EXCEPT
                   !.queue = [i \in 1..(Len(@) - 1) |->
                                 IF i < k THEN @[i] ELSE @[i + 1]],
                   !.got = [value |-> run.value, expect |-> item.expect]]
            /\ last' = [op |-> "then", err |-> NoErr]
            /\ UNCHANGED <<strict, file, disk>>

InitAsync == Construct({FALSE}, {NoFile})

NextAsync ==
    \/ Call
    \/ Continue

SpecAsync == InitAsync /\ [][NextAsync]_vars

(***************************************************************************)
(* Properties.                                                             *)
(***************************************************************************)
\* the identifiers of a sequence
Range(q) == {q[i] : i \in 1..Len(q)}

Tombstoned(m, id) == id \in DOMAIN m /\ "$deleted" \in DOMAIN m[id]

Alive(m, id) == id \in DOMAIN m /\ "$deleted" \notin DOMAIN m[id]

\* C1: in every reachable state, also after a call that ended in an error,
\* the identifier sequence and the mapping hold the same identifiers, each
\* of them once in the sequence.
C1_ListMapBijection ==
    /\ Range(list) = DOMAIN map
    /\ Len(list) = Cardinality(Range(list))

\* a strict persist has thrown on the second of two documents
C1_Witness ==
    /\ last.op = "persist"
    /\ last.err = "serialize"
    /\ Len(list) = 1

\* C2: after persist returns normally the index holds exactly the documents
\* written to the file: no tombstoned document and no document that does
\* not serialize is left in the sequence or the mapping, and the file is
\* the index, one line per document.
C2_PersistCompacts ==
    (last.op = "persist" /\ last.err = NoErr) =>
        /\ \A id \in DOMAIN map : Alive(map, id) /\ CanStringify(Obj(map[id]))
        /\ disk.text = Join([i \in 1..Len(list) |-> Stringify(map[list[i]])])

\* C3: an insert that rejects leaves the sequence and the mapping as they
\* were before the call.
C3_InsertAtomic ==
    [][(last'.op = "insert" /\ last'.err # NoErr) =>
          (list' = list /\ map' = map)]_vars

\* C4: under the lenient policy insert does not reject a batch for an
\* invalid document (it skips the document).
C4_LenientInsertSkips ==
    (~strict /\ last.op = "insert") => last.err # "invalid"

\* whether doc k of the batch carries an _id that is an identifier
HasExplicitId(newDocs, k) ==
    /\ isObject(newDocs[k])
    /\ "_id" \in DOMAIN newDocs[k].o
    /\ isId(newDocs[k].o["_id"])

ReadResultsOmit(l, m, id) ==
    /\ \A projection \in Projections :
           FindOneCall(m, Str(id), projection).res = Null
    /\ \A ids \in IdQueries :
           ids.t = "arr" /\ (\A i \in 1..Len(ids.xs) : isId(ids.xs[i])) =>
               Len(FindManyCall(m, ids, Undefined).payload) =
                   Cardinality({i \in 1..Len(ids.xs) : Alive(m, ids.xs[i].s) /\ ids.xs[i].s # id})
    /\ Len(FindCall(l, m, Obj(EmptyObj), Undefined).payload) =
           Cardinality({i \in DOMAIN m : Alive(m, i) /\ i # id})

\* C6: once an identifier is tombstoned, findOne resolves null for it and
\* findMany and find omit it, in every later state reached by insert,
\* update, updateById, delete, deleteById and persist.
C6_TombstonedStaysHidden ==
    [][\A id \in Ids :
          (/\ Tombstoned(map, id)
           /\ last'.op \in {"insert", "update", "updateById", "delete",
                            "deleteById", "persist"}) =>
              ReadResultsOmit(list', map', id)]_vars

\* the identifiers that went from live to tombstoned between m and n
NewlyTombstoned(m, n) == {id \in DOMAIN m : Alive(m, id) /\ Tombstoned(n, id)}

\* C7: delete and deleteById resolve with the number of documents that
\* went from live to tombstoned in the call: a missing or tombstoned
\* identifier and a repeated one add nothing, and the same call made again
\* at once resolves 0.
C7_DeleteCountsNewTombstones ==
    /\ \A query \in IdQueries :
           LET r == DeleteByIdCall(map, query)
           IN  r.err = NoErr =>
                   /\ r.payload = Cardinality(NewlyTombstoned(map, r.map))
                   /\ DeleteByIdCall(r.map, query).payload = 0
    /\ \A query \in Queries :
           LET r == DeleteCall(list, map, query)
           IN  r.err = NoErr =>
                   /\ r.payload = Cardinality(NewlyTombstoned(map, r.map))
                   /\ DeleteCall(list, r.map, query).payload = 0
    /\ (last.op \in {"delete", "deleteById"} /\ last.err = NoErr) =>
           /\ \A query \in IdQueries : DeleteByIdCall(map, query).map = map =>
                  DeleteByIdCall(map, query).payload = 0
           /\ \A query \in Queries : DeleteCall(list, map, query).map = map =>
                  DeleteCall(list, map, query).payload = 0

\* deleteById has resolved and left one document tombstoned, one live
C7_Witness ==
    /\ last.op = "deleteById"
    /\ last.err = NoErr
    /\ \E id \in DOMAIN map : Tombstoned(map, id)
    /\ \E id \in DOMAIN map : Alive(map, id)

\* m[id] with the tombstone flag and nothing else changed
TombstoneOf(doc) ==
    [k \in DOMAIN doc \cup {"$deleted"} |->
        IF k = "$deleted" THEN Bool(TRUE) ELSE doc[k]]

\* C8: delete and deleteById, resolved or rejected, leave the sequence and
\* the key set of the mapping as they were; a document is unchanged or,
\* if it was live, has gained the tombstone flag and kept its fields; a
\* document the query does not match or the list does not name is
\* unchanged.
C8_DeleteFrame ==
    [][(last'.op \in {"delete", "deleteById"}) =>
          /\ list' = list
          /\ DOMAIN map' = DOMAIN map
          /\ \A id \in DOMAIN map :
                 \/ map'[id] = map[id]
                 \/ Alive(map, id) /\ map'[id] = TombstoneOf(map[id])
          /\ \A query \in Queries :
                 (isObject(query) /\ DeleteCall(list, map, query).map = map') =>
                     \/ \E id \in DOMAIN map :
                            Alive(map, id) /\ QueryThrows(map[id], query)
                     \/ \A id \in DOMAIN map :
                            ~isQueryMatch(map[id], query) => map'[id] = map[id]
          /\ \A query \in IdQueries :
                 DeleteByIdCall(map, query).map = map' =>
                     \A id \in DOMAIN map :
                         Str(id) \notin Range(toArray(query)) => map'[id] = map[id]]_vars

\* delete has resolved: a document with a field is tombstoned, another one
\* is live
C8_Witness ==
    /\ last.op = "delete"
    /\ last.err = NoErr
    /\ \E id \in DOMAIN map : Tombstoned(map, id) /\ "v" \in DOMAIN map[id]
    /\ \E id \in DOMAIN map : Alive(map, id)

\* C9: after drop the sequence and the mapping are empty and drop has not
\* thrown; with a backing file the file is the empty string, in memory
\* mode there is no file.
C9_DropEmpties ==
    /\ last.op = "drop" =>
           /\ last.err = NoErr
           /\ list = <<>>
           /\ DOMAIN map = {}
           /\ disk = IF file THEN FileOf(<<>>) ELSE NoFile
    /\ LET r == DropCall(list, map, file, disk, strict)
       IN  /\ r.err = NoErr
           /\ r.list = <<>>
           /\ DOMAIN r.map = {}
           /\ file => r.disk = FileOf(<<>>)

\* drop has run on a store with a backing file
C9_Witness ==
    /\ last.op = "drop"
    /\ file
    /\ disk.exists

\* a non-empty line that load takes for a document
IsGoodLine(rawDoc) ==
    rawDoc # <<>> /\ CanParse(rawDoc) /\ isValidDoc(Parse(rawDoc), TRUE)

\* a non-empty line that fails to parse or fails validation
IsBadLine(rawDoc) == rawDoc # <<>> /\ ~IsGoodLine(rawDoc)

GoodLines(rawDocs) == {i \in 1..Len(rawDocs) : IsGoodLine(rawDocs[i])}

LineId(rawDoc) == Parse(rawDoc).o["_id"].s

\* the steps C10 is about: load of an existing file under the lenient policy
IsLenientLoad == last'.op = "load" /\ ~strict /\ file /\ disk.exists

\* C10 (as stated): under the lenient policy load of an existing file does
\* not raise, returns exactly the non-empty bad lines in file order, and
\* the documents of the index are exactly the documents of the remaining
\* non-empty lines.
C10_Original ==
    [][IsLenientLoad =>
          LET rawDocs == Split(disk.text)
          IN  /\ last'.err = NoErr
              /\ LoadCall(list, map, file, disk, strict).corrupted =
                     SelectSeq(rawDocs, IsBadLine)
              /\ {map'[id] : id \in DOMAIN map'} =
                     {Parse(rawDocs[i]).o : i \in GoodLines(rawDocs)}]_vars

\* C10 (amended): under the lenient policy load of an existing file does
\* not raise and returns exactly the non-empty bad lines in file order;
\* the index holds one entry for each identifier carried by a remaining
\* non-empty line, with the document of the last such line; the file is
\* left as it was.
C10_LenientLoad ==
    [][IsLenientLoad =>
          LET rawDocs == Split(disk.text)
              good == GoodLines(rawDocs)
          IN  /\ last'.err = NoErr
              /\ LoadCall(list, map, file, disk, strict).corrupted =
                     SelectSeq(rawDocs, IsBadLine)
              /\ DOMAIN map' = {LineId(rawDocs[i]) : i \in good}
              /\ Range(list') = DOMAIN map'
              /\ Len(list') = Cardinality(DOMAIN map')
              /\ \A i \in good :
                     (\A j \in good : LineId(rawDocs[j]) = LineId(rawDocs[i]) => j <= i)
                         => map'[LineId(rawDocs[i])] = Parse(rawDocs[i]).o
              /\ disk' = disk]_vars

\* a lenient load has read a file with a good line and a bad line
C10_Witness ==
    /\ last.op = "load"
    /\ last.err = NoErr
    /\ ~strict
    /\ disk.exists
    /\ \E i \in 1..Len(Split(disk.text)) : IsGoodLine(Split(disk.text)[i])
    /\ \E i \in 1..Len(Split(disk.text)) : IsBadLine(Split(disk.text)[i])
    /\ Len(list) = 1

\* the steps C11 is about: load of an existing file under the strict policy
IsStrictLoad == last'.op = "load" /\ strict /\ file /\ disk.exists

\* the lines before the first bad line (all lines when there is none)
BeforeFirstBad(rawDocs) ==
    {i \in 1..Len(rawDocs) : \A j \in 1..i : ~IsBadLine(rawDocs[j])}

\* C11: under the strict policy load of an existing file raises exactly
\* when the file has a bad line; the index left behind has one entry for
\* each identifier of a valid line before the first bad line, holding the
\* document of the last such line, and nothing else: no later line and
\* nothing of the index from before the load.
C11_StrictLoadStopsAtFirstBad ==
    [][IsStrictLoad =>
          LET rawDocs == Split(disk.text)
              read == BeforeFirstBad(rawDocs) \cap GoodLines(rawDocs)
          IN  /\ (last'.err # NoErr) <=> (\E i \in 1..Len(rawDocs) : IsBadLine(rawDocs[i]))
              /\ last'.err \in {NoErr, "corrupt"}
              /\ DOMAIN map' = {LineId(rawDocs[i]) : i \in read}
              /\ Range(list') = DOMAIN map'
              /\ \A i \in read :
                     (\A j \in read : LineId(rawDocs[j]) = LineId(rawDocs[i]) => j <= i)
                         => map'[LineId(rawDocs[i])] = Parse(rawDocs[i]).o
              /\ disk' = disk]_vars

\* a strict load has thrown on the second line of a file after reading the
\* first, and the index holds that one document
C11_Witness ==
    /\ last.op = "load"
    /\ last.err = "corrupt"
    /\ strict
    /\ Len(Split(disk.text)) = 2
    /\ IsGoodLine(Split(disk.text)[1])
    /\ IsBadLine(Split(disk.text)[2])
    /\ list = <<LineId(Split(disk.text)[1])>>

\* the live documents of an index, in the order of the sequence
LiveDocs(l, m) ==
    LET ids == SelectSeq(l, LAMBDA id : Alive(m, id))
    IN  [i \in 1..Len(ids) |-> m[ids[i]]]

\* C12: for a store with a backing file whose documents all serialize,
\* persist followed by load neither throws nor reports a corrupted line,
\* and the index afterwards holds no tombstoned document and the same live
\* documents (identifiers, field values, order) as before persist.
C12_PersistLoadRoundTrip ==
    (file /\ \A id \in DOMAIN map : CanStringify(Obj(map[id]))) =>
        LET p == PersistCall(list, map, file, disk, strict)
            r == LoadCall(p.list, p.map, file, p.disk, strict)
        IN  /\ p.err = NoErr
            /\ r.err = NoErr
            /\ r.corrupted = <<>>
            /\ \A id \in DOMAIN r.map : Alive(r.map, id)
            /\ LiveDocs(r.list, r.map) = LiveDocs(list, map)

\* the lines persist has to write for an index: the text of each live
\* document that serializes, in the order of the sequence
LinesOf(l, m) ==
    LET ids == SelectSeq(l, LAMBDA id : Alive(m, id) /\ CanStringify(Obj(m[id])))
    IN  [i \in 1..Len(ids) |-> Stringify(m[ids[i]])]

\* C13: when persist returns normally the file holds one line for each
\* live document of the index that serializes, in the order of the
\* sequence, separated by newlines with none at the end, and nothing of
\* what it held before; these are also the live documents of the index
\* after the call.
C13_PersistWritesLiveLines ==
    [][(last'.op = "persist" /\ last'.err = NoErr) =>
          /\ disk'.exists
          /\ disk'.text = Join(LinesOf(list, map))
          /\ LinesOf(list', map') = LinesOf(list, map)
          /\ (LinesOf(list, map) # <<>>) => Split(disk'.text) = LinesOf(list, map)
          /\ (LinesOf(list, map) = <<>>) => disk'.text = <<>>]_vars

\* persist has returned normally on an index with a live and a tombstoned
\* document, and the file is the one line of the live document
C13_Witness ==
    /\ last.op = "persist"
    /\ last.err = NoErr
    /\ Len(list) = 2
    /\ \E id \in DOMAIN map : Tombstoned(map, id)
    /\ \E id \in DOMAIN map : Alive(map, id) /\ disk.text = Stringify(map[id])

\* C14: a store constructed without a root never has a backing file; its
\* load and persist fail with the configuration error and leave the
\* sequence and the mapping as they were; its drop empties the index
\* without an error.
C14_MemoryModeTouchesNoFile ==
    [][~file =>
          /\ disk = NoFile
          /\ disk' = NoFile
          /\ ~file'
          /\ (last'.op \in {"load", "persist"}) =>
                 /\ last'.err = "memory"
                 /\ list' = list
                 /\ map' = map
          /\ (last'.op = "drop") =>
                 /\ last'.err = NoErr
                 /\ list' = <<>>
                 /\ DOMAIN map' = {}]_vars

\* load has failed in memory mode on an index of two documents
C14_Witness ==
    /\ ~file
    /\ last.op = "load"
    /\ last.err = "memory"
    /\ Len(list) = 2
    /\ disk = NoFile

\* every document of m carries the key it is stored under as its _id
IdsMatchKeys(m) ==
    \A id \in DOMAIN m : Has(m[id], "_id") /\ m[id]["_id"] = Str(id)

\* C15: in every reachable state each stored document's _id is the key it
\* is stored under, and update and updateById, whatever the update
\* carries, keep every key of the mapping and the _id of every document.
C15_IdImmutable ==
    [][/\ IdsMatchKeys(map)
       /\ IdsMatchKeys(map')
       /\ (last'.op \in {"update", "updateById"}) =>
              /\ DOMAIN map' = DOMAIN map
              /\ list' = list
              /\ \A id \in DOMAIN map :
                     Has(map'[id], "_id") /\ map'[id]["_id"] = map[id]["_id"]]_vars

\* an update has resolved and the two documents of the index are not what
\* an insert or a load could have stored (a has lost its field or b has
\* gained one), so the update has rewritten a document
C15_Witness ==
    /\ last.op \in {"update", "updateById"}
    /\ last.err = NoErr
    /\ DOMAIN map = {"a", "b"}
    /\ "v" \notin DOMAIN map["a"]
    /\ "v" \in DOMAIN map["b"]
    /\ map["b"]["v"] = Num(1)

\* doc is the replacement payload with the _id of the document it replaces
IsReplacement(doc, update, old) ==
    /\ DOMAIN doc = DOMAIN update.o \cup {"_id"}
    /\ doc["_id"] = old["_id"]
    /\ \A k \in DOMAIN update.o \ {"_id"} : doc[k] = update.o[k]

\* the valid updates without a `$` key
Replacements == {u \in UpdatesWide : isValidUpdate(u) /\ ~hasOperators(u)}

\* C16: an update or updateById in replacement mode that resolves leaves
\* each matched live document with exactly the fields of the payload and
\* its own _id, none of its other former fields, and every other document
\* as it was.
C16_ReplacementReplaces ==
    \A update \in Replacements :
        /\ \A query \in Queries :
               LET r == UpdateCall(list, map, query, update, Undefined)
               IN  r.err = NoErr =>
                       \A id \in DOMAIN map :
                           IF Alive(map, id) /\ isQueryMatch(map[id], query)
                           THEN IsReplacement(r.map[id], update, map[id])
                           ELSE r.map[id] = map[id]
        /\ \A query \in IdQueries :
               LET r == UpdateByIdCall(map, query, update, Undefined)
               IN  r.err = NoErr =>
                       \A id \in DOMAIN map :
                           IF Alive(map, id) /\ Str(id) \in Range(toArray(query))
                           THEN IsReplacement(r.map[id], update, map[id])
                           ELSE r.map[id] = map[id]

\* an update has resolved and document a, which insert stores with the
\* field v, holds the field w of the replacement and no v
C16_Witness ==
    /\ last.op \in {"update", "updateById"}
    /\ last.err = NoErr
    /\ "a" \in DOMAIN map
    /\ DOMAIN map["a"] = {"_id", "w"}
    /\ map["a"]["w"] = Num(1)

\* C17: update and updateById called with an invalid update reject,
\* whatever the query, the identifiers and the projection are, with no
\* document touched: the mapping the call leaves equals the one it found
\* (neither method ever writes the sequence).
C17_InvalidUpdateTouchesNothing ==
    \A update \in {u \in UpdatesWide : ~isValidUpdate(u)} :
        \A projection \in Projections :
            /\ \A query \in Queries :
                   LET r == UpdateCall(list, map, query, update, projection)
                   IN  /\ r.err # NoErr
                       /\ isObject(query) => r.err = "update"
                       /\ r.map = map
                       /\ r.payload = <<>>
            /\ \A query \in IdQueries :
                   LET r == UpdateByIdCall(map, query, update, projection)
                   IN  r.err = "update" /\ r.map = map /\ r.payload = <<>>

\* update has rejected an invalid update on an index with a live document
\* that the empty query matches
C17_Witness ==
    /\ last.op = "update"
    /\ last.err = "update"
    /\ Len(list) = 2
    /\ \E id \in DOMAIN map : Alive(map, id) /\ "v" \in DOMAIN map[id]

\* doc has the fields and values of the input and, under _id, the given
\* identifier when the input has one
IsInputWithId(doc, input) ==
    /\ DOMAIN doc = DOMAIN input \cup {"_id"}
    /\ \A k \in DOMAIN input : doc[k] = input[k]
    /\ isId(doc["_id"])

IdsStay == Range(list) \subseteq Range(list') /\ DOMAIN map \subseteq DOMAIN map'

\* C20 (as stated): an identifier of the index stays in the index across
\* every call but persist and drop (load included).
C20_Original ==
    [][(last'.op \notin {"persist", "drop"}) => IdsStay]_vars

\* C20 (amended): an identifier of the index stays in the index across
\* every insert, update, updateById, delete, deleteById, findOne, findMany
\* and find, resolved or rejected; identifiers leave the index only
\* through load, persist or drop.
C20_IdsLeaveOnlyByLoadPersistDrop ==
    [][(last'.op \notin {"load", "persist", "drop"}) => IdsStay]_vars

\* a delete has resolved on an index of two identifiers, one of them
\* tombstoned and still in the index
C20_Witness ==
    /\ last.op \in {"delete", "deleteById"}
    /\ last.err = NoErr
    /\ Len(list) = 2
    /\ \E id \in Range(list) : Tombstoned(map, id)
    /\ file

\* the steps C21 is about: load by a store whose backing file is missing
IsLoadOfMissingFile == last'.op = "load" /\ file /\ ~disk.exists

\* C21: a load that finds no backing file creates it empty, reports no
\* corrupted line, does not throw and leaves the sequence and the mapping
\* as they were; a constructor with a root and autoload that returns
\* leaves a file in place (an empty one when there was none), and with
\* autoload disabled it leaves the file, or its absence, and an empty
\* index.
C21_LoadCreatesMissingFile ==
    /\ [][IsLoadOfMissingFile =>
             /\ last'.err = NoErr
             /\ LoadCall(list, map, file, disk, strict).corrupted = <<>>
             /\ disk' = FileOf(<<>>)
             /\ list' = list
             /\ map' = map]_vars
    /\ [](\A isStrict \in BOOLEAN, d \in InitialDisks(MaxFileLines) :
             LET auto == ConstructCall(isStrict, TRUE, FALSE, d)
                 off == ConstructCall(isStrict, TRUE, TRUE, d)
             IN  /\ auto.err = NoErr => auto.disk.exists
                 /\ ~d.exists =>
                        /\ auto.err = NoErr
                        /\ auto.disk = FileOf(<<>>)
                        /\ auto.list = <<>>
                        /\ auto.corrupted = <<>>
                 /\ off.err = NoErr
                 /\ off.disk = d
                 /\ off.list = <<>>
                 /\ DOMAIN off.map = {})
    /\ []((last.op = "new" /\ file /\ ~disk.exists) => list = <<>>)

\* a store opened without autoload on a missing file has inserted two
\* documents and then loaded: the file is there, empty, and the two
\* documents are still in the index
C21_Witness ==
    /\ last.op = "load"
    /\ last.err = NoErr
    /\ file
    /\ disk = FileOf(<<>>)
    /\ Len(list) = 2

\* the steps that may write the backing file: persist, drop, and a load
\* that finds no file
MayWriteFile ==
    \/ last'.op \in {"persist", "drop"}
    \/ last'.op = "load" /\ ~disk.exists

\* C22: the backing file (whether it exists, and its content) is the same
\* after every insert, update, updateById, delete, deleteById, findOne,
\* findMany and find, resolved or rejected, and after a load that finds
\* the file; it changes only in persist, drop and a load that finds no
\* file.
C22_FileChangesOnlyByPersistDropLoad ==
    [][~MayWriteFile => disk' = disk]_vars

\* an insert has rejected after storing a document, next to a file of one
\* line: the index has two identifiers, the file still its one line
C22_Witness ==
    /\ last.op = "insert"
    /\ last.err # NoErr
    /\ file
    /\ disk.exists
    /\ Len(Split(disk.text)) = 1
    /\ IsGoodLine(Split(disk.text)[1])
    /\ Len(list) = 2

\* the steps C23 is about: a load that finds the file and returns normally
IsLoadOfFile == last'.op = "load" /\ last'.err = NoErr /\ file /\ disk.exists

\* C23: after a load that finds the backing file and returns normally the
\* index is the one a store with an empty index reads from that file:
\* every identifier of the index is the _id of a valid line and every
\* document is the document of such a line, so a document that is in the
\* index only (inserted since the last persist) is gone, no document is
\* tombstoned, and a tombstoned document whose line is in the file is live
\* again.
C23_LoadForgetsIndex ==
    [][IsLoadOfFile =>
          LET rawDocs == Split(disk.text)
              good == GoodLines(rawDocs)
              fresh == LoadCall(<<>>, EmptyObj, TRUE, disk, FALSE)
          IN  /\ list' = fresh.list
              /\ map' = fresh.map
              /\ DOMAIN map' = {LineId(rawDocs[i]) : i \in good}
              /\ \A id \in DOMAIN map' :
                     /\ Alive(map', id)
                     /\ \E i \in good : map'[id] = Parse(rawDocs[i]).o
              /\ \A id \in DOMAIN map :
                     (\A i \in good : LineId(rawDocs[i]) # id) =>
                         id \notin DOMAIN map' /\ id \notin Range(list')
              /\ \A id \in DOMAIN map :
                     (Tombstoned(map, id) /\ \E i \in good : LineId(rawDocs[i]) = id) =>
                         Alive(map', id)]_vars

\* a load has returned normally on a file of two lines, a valid one and a
\* line that is no JSON, and the index is the one document of the file
C23_Witness ==
    /\ last.op = "load"
    /\ last.err = NoErr
    /\ file
    /\ disk.exists
    /\ Len(Split(disk.text)) = 2
    /\ IsGoodLine(Split(disk.text)[1])
    /\ Split(disk.text)[2] = <<Garbage>>
    /\ list = <<"a">>
    /\ Alive(map, "a")
    /\ map["a"] = Parse(Split(disk.text)[1]).o

\* the live documents of m that the query matches
Matched(m, query) ==
    {id \in DOMAIN m : Alive(m, id) /\ isQueryMatch(m[id], query)}

\* the live documents of m that the identifier list names
Listed(m, ids) ==
    {id \in DOMAIN m : Alive(m, id) /\ Str(id) \in Range(ids)}

\* the entries of the list that name a live document of m, in list order
Hits(m, ids) == SelectSeq(ids, LAMBDA x : isId(x) /\ Alive(m, x.s))

\* the mapping n differs from m in documents of `changed` only, and has
\* the keys of m
ChangesOnly(m, n, changed) ==
    /\ DOMAIN n = DOMAIN m
    /\ \A id \in DOMAIN m : id \notin changed => n[id] = m[id]

\* the payload holds, once for each changed entry, the (projected) document
\* the mapping n has for it
IsPostUpdateDocs(payload, n, changed, projection) ==
    /\ Len(payload) = Cardinality(changed)
    /\ \A i \in 1..Len(payload) :
           \E id \in changed : payload[i] = project(n[id], projection)
    /\ \A id \in changed :
           \E i \in 1..Len(payload) : payload[i] = project(n[id], projection)

\* update leaves the sequence alone and changes matched live documents
\* only; when it resolves, its value is the post-update documents of the
\* matched entries, in the order of the sequence
UpdateFrame ==
    \A query \in Queries, update \in UpdatesWide, projection \in Projections :
        LET r == UpdateCall(list, map, query, update, projection)
            ms == SelectSeq(list, LAMBDA id : id \in Matched(map, query))
        IN  IF ~isObject(query) THEN r.map = map
            ELSE /\ ChangesOnly(map, r.map, Matched(map, query))
                 /\ r.err = NoErr =>
                        /\ IsPostUpdateDocs(r.payload, r.map,
                                            Matched(map, query), projection)
                        /\ r.payload =
                               [i \in 1..Len(ms) |-> project(r.map[ms[i]], projection)]

\* no update step writes the sequence, creates or removes a key of the
\* mapping, or changes a tombstoned document
UpdateStepFrame ==
    (last'.op \in {"update", "updateById"}) =>
        /\ list' = list
        /\ DOMAIN map' = DOMAIN map
        /\ \A id \in DOMAIN map : ~Alive(map, id) => map'[id] = map[id]

\* C24 (as stated): update and updateById change only the live documents
\* they match or name; tombstoned, unmatched and unlisted documents are
\* unchanged, no document is created, the sequence is unchanged, and the
\* call resolves with exactly the post-update documents of the changed
\* entries.
C24_Original ==
    /\ [][UpdateStepFrame]_vars
    /\ [](/\ UpdateFrame
          /\ \A query \in IdQueries, update \in UpdatesWide,
                projection \in Projections :
                 LET r == UpdateByIdCall(map, query, update, projection)
                     changed == Listed(map, toArray(query))
                 IN  /\ ChangesOnly(map, r.map, changed)
                     /\ r.err = NoErr =>
                            IsPostUpdateDocs(r.payload, r.map, changed, projection))

\* C24 (amended): as stated, except that updateById resolves with one
\* document for each entry of the list that names a live document, in list
\* order: the document as it is after that entry's update.  An identifier
\* listed twice is updated twice and contributes two documents; the last
\* of them is the document of the index.
C24_UpdateFrame ==
    /\ [][UpdateStepFrame]_vars
    /\ [](/\ UpdateFrame
          /\ \A query \in IdQueries, update \in UpdatesWide,
                projection \in Projections :
                 LET r == UpdateByIdCall(map, query, update, projection)
                     ids == toArray(query)
                     changed == Listed(map, ids)
                     hits == Hits(map, ids)
                 IN  /\ ChangesOnly(map, r.map, changed)
                     /\ r.err = NoErr =>
                            /\ Len(r.payload) = Len(hits)
                            /\ \A i \in 1..Len(hits) :
                                   LET upto == UpdateByIdCall(
                                                   map, Arr(SubSeq(hits, 1, i)),
                                                   update, Undefined)
                                   IN  r.payload[i] =
                                           project(upto.map[hits[i].s], projection)
                            /\ \A i \in 1..Len(hits) :
                                   (\A j \in (i + 1)..Len(hits) : hits[j] # hits[i]) =>
                                       r.payload[i] =
                                           project(r.map[hits[i].s], projection))

\* updateById has resolved: the tombstoned document a keeps its field, the
\* live document b holds the field of the replacement and nothing else
C24_Witness ==
    /\ last.op = "updateById"
    /\ last.err = NoErr
    /\ DOMAIN map = {"a", "b"}
    /\ Tombstoned(map, "a")
    /\ "v" \in DOMAIN map["a"]
    /\ Alive(map, "b")
    /\ DOMAIN map["b"] = {"_id", "w"}

\* what findOne, findMany and find resolve or reject with on an index, for
\* every argument of the model
ReadResults(l, m) ==
    [one |-> [id \in IdArgs, projection \in Projections |->
                  FindOneCall(m, id, projection)],
     many |-> [ids \in IdQueries, projection \in Projections |->
                   FindManyCall(m, ids, projection)],
     all |-> [query \in Queries, projection \in Projections |->
                  FindCall(l, m, query, projection)]]

\* C25: findOne, findMany and find, resolved or rejected, leave the
\* sequence, every stored document and the backing file as they were, so
\* the same call made again at once (and every other read) resolves or
\* rejects with the same result as before the call.
C25_ReadsChangeNothing ==
    [][(last'.op \in {"findOne", "findMany", "find"}) =>
          /\ list' = list
          /\ map' = map
          /\ disk' = disk
          /\ ReadResults(list', map') = ReadResults(list, map)]_vars

\* a read has resolved on an index with a live and a tombstoned document
\* and a backing file that holds a line
C25_Witness ==
    /\ last.op \in {"findOne", "findMany", "find"}
    /\ last.err = NoErr
    /\ \E id \in DOMAIN map : Alive(map, id)
    /\ \E id \in DOMAIN map : Tombstoned(map, id)
    /\ file
    /\ disk.exists
    /\ disk.text # <<>>

\* the position of the first valid line of the file that carries the
\* identifier
FirstLineOf(rawDocs, id) ==
    CHOOSE i \in GoodLines(rawDocs) :
        /\ LineId(rawDocs[i]) = id
        /\ \A j \in GoodLines(rawDocs) : LineId(rawDocs[j]) = id => i <= j

\* how a step treats the order of the sequence: update, updateById, delete,
\* deleteById and the reads leave the sequence as it is; insert, resolved
\* or rejected, keeps every identifier at its position and adds new ones
\* behind them; a load that finds the file orders the identifiers by their
\* first line
OrderKept ==
    /\ (last'.op \in {"update", "updateById", "delete", "deleteById",
                      "findOne", "findMany", "find"}) => list' = list
    /\ (last'.op = "insert") =>
           /\ Len(list') >= Len(list)
           /\ SubSeq(list', 1, Len(list)) = list
    /\ (last'.op = "load" /\ file /\ disk.exists) =>
           \A i, j \in 1..Len(list') :
               i < j => FirstLineOf(Split(disk.text), list'[i])
                            < FirstLineOf(Split(disk.text), list'[j])

\* C26: find with the empty query resolves the live documents of the index,
\* each once, in the order of the identifier sequence, which is the order
\* in which the identifiers were first added (by insert one after the
\* other, by load in the order of their first line); update, updateById,
\* delete and deleteById leave that order as it is.
C26_FindAllInInsertionOrder ==
    /\ [](\A projection \in Projections :
             LET r == FindCall(list, map, Obj(EmptyObj), projection)
                 live == SelectSeq(list, LAMBDA id : Alive(map, id))
             IN  /\ r.err = NoErr
                 /\ Len(live) = Cardinality({id \in DOMAIN map : Alive(map, id)})
                 /\ r.payload = [i \in 1..Len(live) |-> project(map[live[i]], projection)]
                 /\ projection = Undefined =>
                        \A i, j \in 1..Len(r.payload) :
                            i # j => r.payload[i]["_id"] # r.payload[j]["_id"])
    /\ [][OrderKept]_vars

\* an update has resolved on an index of two live documents, the first of
\* them with a generated identifier: find({}) lists them in that order
C26_Witness ==
    /\ last.op \in {"update", "updateById"}
    /\ last.err = NoErr
    /\ Len(list) = 2
    /\ \A id \in DOMAIN map : Alive(map, id)
    /\ list[1] = "b"
    /\ Len(FindCall(list, map, Obj(EmptyObj), Undefined).payload) = 2
    /\ FindCall(list, map, Obj(EmptyObj), Undefined).payload[1]["_id"] = Str("b")

\* the positions of the sequence whose document is live and does not
\* serialize: JSON.stringify throws there
FailingAt(l, m) ==
    {i \in 1..Len(l) : Alive(m, l[i]) /\ ~CanStringify(Obj(m[l[i]]))}

\* the first of them
FirstFailing(l, m) ==
    CHOOSE i \in FailingAt(l, m) : \A j \in FailingAt(l, m) : i <= j

\* C27: under the strict policy persist raises exactly when a live document
\* of the index does not serialize; it then has removed the first such
\* document, and only that one, from the sequence and the mapping (the
\* documents before it and after it, failing ones included, are where they
\* were), and the backing file is as it was before the call.
C27_StrictPersistStopsAtFailure ==
    [][(last'.op = "persist" /\ strict /\ file) =>
          /\ (last'.err # NoErr) <=> (FailingAt(list, map) # {})
          /\ last'.err \in {NoErr, "serialize"}
          /\ (last'.err = "serialize") =>
                 LET id == list[FirstFailing(list, map)]
                 IN  /\ list' = SetDelete(list, id)
                     /\ map' = Without(map, id)
                     /\ disk' = disk
                     /\ \A i \in FailingAt(list, map) :
                            i # FirstFailing(list, map) =>
                                /\ list[i] \in Range(list')
                                /\ map'[list[i]] = map[list[i]]]_vars

\* a strict persist has thrown on the first of two documents that do not
\* serialize: the second one is still in the index, and the file holds the
\* line it held before
C27_Witness ==
    /\ last.op = "persist"
    /\ last.err = "serialize"
    /\ strict
    /\ Len(list) = 1
    /\ FailingAt(list, map) = {1}
    /\ disk.exists
    /\ disk.text # <<>>

\* C28: an insert that resolves adds one new identifier for each document
\* of the batch, behind the identifiers that were there, and leaves every
\* document that was in the index, live or tombstoned, as it was; this
\* also when a document has no _id and the generator returns an identifier
\* that is in the index.
C28_InsertKeepsIdentifiers ==
    \A payload \in PayloadsWide \ {Null} :
        \A uids \in UidChoices(toArray(payload)) :
            LET r == InsertCall(list, map, payload, uids)
            IN  r.err = NoErr =>
                    /\ Len(r.list) = Len(list) + Len(toArray(payload))
                    /\ SubSeq(r.list, 1, Len(list)) = list
                    /\ Len(r.list) = Cardinality(Range(r.list))
                    /\ \A id \in DOMAIN map : r.map[id] = map[id]

\* the positions of the list that hold no identifier
InvalidAt(ids) == {i \in 1..Len(ids) : ~isId(ids[i])}

\* the first of them
FirstInvalid(ids) == CHOOSE i \in InvalidAt(ids) : \A j \in InvalidAt(ids) : i <= j

\* the documents named before position k, and those named from k on only
NamedBefore(m, ids, k) ==
    {id \in DOMAIN m : \E i \in 1..(k - 1) : ids[i] = Str(id)}

\* C29: deleteById and updateById (with a valid update) called with a list
\* whose first invalid identifier is at position k reject for it, unless
\* the update of an earlier document has thrown already; the index is the
\* one the call on the first k-1 identifiers leaves: the live documents
\* named before k are tombstoned, or updated, and every other document,
\* those named after k included, is as it was.
C29_IdsCheckedWhileApplying ==
    \A query \in IdQueries :
        LET ids == toArray(query)
        IN  InvalidAt(ids) # {} =>
                LET k == FirstInvalid(ids)
                    prefix == Arr(SubSeq(ids, 1, k - 1))
                    before == NamedBefore(map, ids, k)
                IN  /\ LET r == DeleteByIdCall(map, query)
                       IN  /\ r.err = "id"
                           /\ r.map = DeleteByIdCall(map, prefix).map
                           /\ DOMAIN r.map = DOMAIN map
                           /\ \A id \in DOMAIN map :
                                  IF id \in before /\ Alive(map, id)
                                  THEN r.map[id] = TombstoneOf(map[id])
                                  ELSE r.map[id] = map[id]
                    /\ \A update \in {u \in UpdatesWide : isValidUpdate(u)},
                          projection \in Projections :
                           LET r == UpdateByIdCall(map, query, update, projection)
                               p == UpdateByIdCall(map, prefix, update, projection)
                           IN  /\ r.err = IF p.err = NoErr THEN "id" ELSE p.err
                               /\ r.map = p.map
                               /\ DOMAIN r.map = DOMAIN map
                               /\ \A id \in DOMAIN map :
                                      (id \notin before \/ ~Alive(map, id)) =>
                                          r.map[id] = map[id]
                               /\ (p.err = NoErr /\ ~hasOperators(update)) =>
                                      \A id \in before :
                                          Alive(map, id) =>
                                              IsReplacement(r.map[id], update, map[id])

\* deleteById has rejected an invalid identifier: one document is
\* tombstoned, another one is live
C29_Witness ==
    /\ last.op = "deleteById"
    /\ last.err = "id"
    /\ DOMAIN map = {"a", "b"}
    /\ Tombstoned(map, "a")
    /\ Alive(map, "b")

\* the position of the last valid line of the file that carries the
\* identifier
LastLineOf(rawDocs, id) ==
    CHOOSE i \in GoodLines(rawDocs) :
        /\ LineId(rawDocs[i]) = id
        /\ \A j \in GoodLines(rawDocs) : LineId(rawDocs[j]) = id => j <= i

\* the non-empty lines of the file
NonEmptyLines(rawDocs) == {i \in 1..Len(rawDocs) : rawDocs[i] # <<>>}

\* C30: a load of a file in which valid lines share an identifier neither
\* raises nor reports a line for it: the call raises only for a bad line
\* under the strict policy and reports only bad lines; when it returns,
\* the index has one entry for each identifier of a valid line, holding
\* the document of the last line with that identifier, at the position of
\* the first one, so the size of the index plus that of the corrupted list
\* is at most the number of non-empty lines, and smaller when an
\* identifier is repeated.
C30_LoadLastLineWins ==
    [][(last'.op = "load" /\ file /\ disk.exists) =>
          LET rawDocs == Split(disk.text)
              good == GoodLines(rawDocs)
              r == LoadCall(list, map, file, disk, strict)
              bad == {i \in 1..Len(rawDocs) : IsBadLine(rawDocs[i])}
          IN  /\ (last'.err # NoErr) <=> (strict /\ bad # {})
              /\ (last'.err = NoErr) =>
                     /\ r.corrupted = SelectSeq(rawDocs, IsBadLine)
                     /\ Range(list') = {LineId(rawDocs[i]) : i \in good}
                     /\ Len(list') = Cardinality(Range(list'))
                     /\ DOMAIN map' = Range(list')
                     /\ \A id \in Range(list') :
                            map'[id] = Parse(rawDocs[LastLineOf(rawDocs, id)]).o
                     /\ \A i, j \in 1..Len(list') :
                            i < j => FirstLineOf(rawDocs, list'[i])
                                         < FirstLineOf(rawDocs, list'[j])
                     /\ Len(list') + Len(r.corrupted)
                            <= Cardinality(NonEmptyLines(rawDocs))
                     /\ (Len(list') + Len(r.corrupted)
                             < Cardinality(NonEmptyLines(rawDocs)))
                            <=> (\E i, j \in good :
                                     i # j /\ LineId(rawDocs[i]) = LineId(rawDocs[j]))]_vars

\* a load has read a file of three valid lines, the first and the third
\* with the identifier a: the index has two entries, a before b, and a
\* holds the document of the third line
C30_Witness ==
    /\ last.op = "load"
    /\ last.err = NoErr
    /\ Len(Split(disk.text)) = 3
    /\ Split(disk.text)[1] = <<Json(Obj([_id |-> Str("a"), v |-> Num(1)]))>>
    /\ Split(disk.text)[2] = <<Json(Obj([_id |-> Str("b")]))>>
    /\ Split(disk.text)[3] = <<Json(Obj([_id |-> Str("a")]))>>
    /\ list = <<"a", "b">>
    /\ DOMAIN map["a"] = {"_id"}

====
